---- MODULE Spec2Model ----
\* A model of versionedzarrlib.data.VersionedData: a chunked array store made of
\* a write-once chunk directory (raw/), an index grid (indexes) mapping a grid
\* position to the identifier of the chunk standing for it, and a metadata file
\* holding the chunk counter.  The state is the content of the store directory
\* plus, for every process using the store, its position inside the call it is
\* executing.
EXTENDS Integers, Sequences, FiniteSets, TLC

\* ------------------------------------------------------------------ bounds
\* write_block is not started once the counter has reached MaxChunks.
MaxChunks == 3
\* A bulk-fill source holds identifiers 0..MaxFillId.
MaxFillId == 1
\* Under SpecVC write_block is not started once the counter has reached
\* MaxCommitted.
MaxCommitted == 2
\* _get_grid_dimensions is called with dimensions 1..MaxDim and 2^53 + 0..MaxDim
\* and with chunk sizes 1..MaxDim.
MaxDim == 4

\* ------------------------------------------------------------ configuration
\* The constructor arguments (data.py:21-24) of the one store that is modelled.
shape == <<3, 2>>
raw_chunk_size == <<2, 2>>
d_type == "int8"

\* The processes that hold a VersionedData instance on the store.
Procs == {1, 2}

\* ------------------------------------------------- integers of any size
\* A Python int of any size: the sequence of its binary digits, the most
\* significant first and not 0; <<>> is 0.  Chunk sizes are taken to be below
\* 2^30 and are plain numbers.
RECURSIVE Bits(_)
Bits(n) == IF n = 0 THEN <<>> ELSE Append(Bits(n \div 2), n % 2)

RECURSIVE Val(_)
Val(b) ==
    IF b = <<>> THEN 0 ELSE 2 * Val(SubSeq(b, 1, Len(b) - 1)) + b[Len(b)]

\* b without its leading zeros
Trim(b) ==
    LET ones == {i \in 1..Len(b) : b[i] = 1}
    IN  IF ones = {} THEN <<>>
        ELSE SubSeq(b, CHOOSE i \in ones : \A j \in ones : i <= j, Len(b))

\* b + 1: the last 0 becomes 1 and the ones after it 0
Inc(b) ==
    LET zs == {i \in 1..Len(b) : b[i] = 0}
    IN  IF zs = {} THEN <<1>> \o [i \in 1..Len(b) |-> 0]
        ELSE LET j == CHOOSE i \in zs : \A k \in zs : k <= i
             IN  [i \in 1..Len(b) |->
                     IF i < j THEN b[i] ELSE IF i = j THEN 1 ELSE 0]

\* Long division of the digits lo..hi of b by c, entered with the remainder r
\* of the digits before them: q the digits of the quotient, r the remainder.
RECURSIVE DivModRange(_, _, _, _, _)
DivModRange(b, c, lo, hi, r) ==
    IF lo > hi THEN [q |-> <<>>, r |-> r]
    ELSE IF lo = hi
    THEN LET x == 2 * r + b[lo]
         IN  IF x >= c THEN [q |-> <<1>>, r |-> x - c]
                       ELSE [q |-> <<0>>, r |-> x]
    ELSE LET mid == (lo + hi) \div 2
             left == DivModRange(b, c, lo, mid, r)
             right == DivModRange(b, c, mid + 1, hi, left.r)
         IN  [q |-> left.q \o right.q, r |-> right.r]

\* divmod(b, c): q the quotient (with leading zeros), r the remainder.
DivMod(b, c) == DivModRange(b, c, 1, Len(b), 0)

RECURSIVE Pow2(_)
Pow2(n) == IF n = 0 THEN 1 ELSE 2 * Pow2(n - 1)

\* The number of significant binary digits of a Python float (IEEE binary64).
MantissaBits == 53

\* int(a / c), data.py:173.  a / c is the quotient of the two ints rounded to
\* the nearest float, to the even one of two that are as near; int() cuts the
\* fraction off.  With Q the whole part of the quotient, r the remainder and n
\* the number of digits of Q, the float keeps MantissaBits - n digits of the
\* fraction (n < MantissaBits), none (n = MantissaBits), or only the leading
\* MantissaBits digits of Q.
int_true_div(a, c) ==
    LET d == DivMod(a, c)
        Q == Trim(d.q)
        r == d.r
        n == Len(Q)
        f == MantissaBits - n
    IN  IF n < MantissaBits
        THEN \* the fraction r / c rounds up to 1 when it is within half a unit
             \* of the last digit kept: (c - r) * 2^(f + 1) <= c
             IF r > 0 /\ f + 1 <= 30 /\ c - r <= c \div Pow2(f + 1)
             THEN Inc(Q) ELSE Q
        ELSE IF n = MantissaBits
        THEN IF 2 * r > c \/ (2 * r = c /\ Q[n] = 1) THEN Inc(Q) ELSE Q
        ELSE LET top == SubSeq(Q, 1, MantissaBits)
                 rest == SubSeq(Q, MantissaBits + 1, n)
                 sticky == r > 0 \/ \E i \in 2..Len(rest) : rest[i] = 1
                 up == rest[1] = 1 /\ (sticky \/ top[MantissaBits] = 1)
             IN  (IF up THEN Inc(top) ELSE top)
                     \o [i \in 1..Len(rest) |-> 0]

\* src/versionedzarrlib/data.py:169-177
_get_grid_dimensions(dimension, chunk_size) ==
    [i \in 1..Len(dimension) |->
        LET val == int_true_div(dimension[i], chunk_size[i])
            rem == DivMod(dimension[i], chunk_size[i]).r
        IN  IF rem > 0 THEN Inc(val) ELSE val]

\* data.py:49
_index_matrix_dimension ==
    LET dims == _get_grid_dimensions([i \in 1..Len(shape) |-> Bits(shape[i])],
                                     raw_chunk_size)
    IN  [i \in 1..Len(dims) |-> Val(dims[i])]

\* 2^MantissaBits + k
AboveMantissa(k) ==
    <<1>> \o [i \in 1..(MantissaBits - Len(Bits(k))) |-> 0] \o Bits(k)

\* The dimensions and the shapes (of rank 1 and 2) _get_grid_dimensions is
\* called with, and the chunk sizes of a rank.
DimInputs ==
    {Bits(k) : k \in 1..MaxDim} \cup {AboveMantissa(k) : k \in 0..MaxDim}
ShapeInputs == UNION {[1..rank -> DimInputs] : rank \in 1..2}
ChunkSizeInputs(rank) == [1..rank -> 1..MaxDim]

\* The cells of an array of the given (rank 2) shape, zero based.
Cells(shp) == {<<i, j>> : i \in 0..(shp[1] - 1), j \in 0..(shp[2] - 1)}

\* The grid positions that exist in the index grid.
Grid == Cells(_index_matrix_dimension)

\* zarr/numpy bounds check of a point selection: every coordinate below the
\* length of its axis (the inputs are never negative).
InBounds(position) ==
    \A i \in 1..Len(position) : position[i] < _index_matrix_dimension[i]

\* The positions the calls are tried with: the grid, and one position past the
\* end of each axis.
PosInputs ==
    Grid \cup {<<_index_matrix_dimension[1], 0>>, <<0, _index_matrix_dimension[2]>>}

\* np.full(shp, v)
full(shp, v) == [c \in Cells(shp) |-> v]

\* np.zeros(shp)
zeros(shp) == full(shp, 0)

\* The blocks write_block and save_raw are called with: chunk shaped.
InputBlocks == {zeros(raw_chunk_size), full(raw_chunk_size, 1)}

\* The dask arrays fill_index_dataset is called with: grid shaped.
DaskArrays == [Grid -> 0..MaxFillId]

\* The empty function: an absent block, position, index array or checkpoint.
NoBlock == <<>>
NoPos == <<>>
NoIndex == <<>>
NoCheckpoint == <<>>

\* The metadata file before create_like has written it.
NoMetadata == [shape |-> <<>>, chunks |-> <<>>, dtype |-> "", total_chunks |-> 0]

VARIABLES
    exists,      \* os.path.exists(self.path)
    index,       \* the zarr array at path/indexes: Grid -> identifier, 0 = empty
    raw,         \* the directory path/raw: the identifiers present -> their block
    metadata,    \* the Metadata file: shape, chunks, dtype, total_chunks
    checkpoint,  \* the commit held by the repository in path/indexes/.git
    pc,          \* per process: where it is in the call it executes
    loc,         \* per process: the local variables of that call
    ret,         \* the last call that returned: what it was and what it gave
    allocated,   \* history: the identifiers allocated since the store was created
    written,     \* history: the positions written since the store was created
    snap_view,   \* history: what get_chunk gave per position at the checkpoint
    grid_call    \* a call of _get_grid_dimensions: its arguments and result

vars == <<exists, index, raw, metadata, checkpoint, pc, loc, ret,
          allocated, written, snap_view, grid_call>>

disk == <<exists, index, raw, metadata, checkpoint>>
hist == <<allocated, written, snap_view>>

NoLoc == [data |-> NoBlock, pos |-> NoPos, id |-> 0, n |-> 0]

\* What a call gave: op the method, pos and blk its position and block (the
\* block written, or the block read), id the chunk identifier it used, st "ok"
\* or the exception raised, n the number it returned (block_exists,
\* get_total_chunks), for write_block the counter before the call, for create
\* the numbers of index entries (id) and of chunks (n) removed, for checkout
\* the number of entries restored.
\* after is filled in when the call returns.
Ret(op, pos, blk, id, st, n) ==
    [op |-> op, pos |-> pos, blk |-> blk, id |-> id, st |-> st, n |-> n,
     after |-> ""]

NoRet == Ret("none", NoPos, NoBlock, 0, "ok", 0)

\* The call that returned just before r, as far as the properties look back:
\* a write_block on the position of r, a create that removed a store, a
\* checkout that changed the index.
After(r) ==
    IF r.op \in {"get_chunk", "write_block", "block_exists"}
          /\ ret.op = "write_block"
          /\ ret.pos = r.pos
    THEN "write_block"
    ELSE IF r.op \in {"get_chunk", "block_exists"} /\ ret.op = "create"
          /\ ret.st = "overwritten"
    THEN "overwritten"
    ELSE IF r.op = "get_chunk" /\ ret.op = "checkout" /\ ret.n > 0
    THEN "restored"
    ELSE ""

\* A call returns: what it gave becomes ret.
Return(r) == ret' = [r EXCEPT !.after = After(r)]

Quiescent == \A q \in Procs : pc[q] = "idle"

\* No call of _get_grid_dimensions is looked at.
NoGridCall == [dimension |-> <<>>, chunk_size |-> <<>>, result |-> <<>>]

\* ------------------------------------------------------------------- Init
\* After __init__ (data.py:21-51): nothing is on disk yet.
Init ==
    /\ exists = FALSE
    /\ index = NoIndex
    /\ raw = <<>>
    /\ metadata = NoMetadata
    /\ checkpoint = NoCheckpoint
    /\ pc = [p \in Procs |-> "idle"]
    /\ loc = [p \in Procs |-> NoLoc]
    /\ ret = NoRet
    /\ allocated = <<>>
    /\ written = {}
    /\ snap_view = NoCheckpoint
    /\ grid_call = NoGridCall

\* ------------------------------------------------- the collaborators' calls
\* Metadata.next_chunk(path): the counter of the metadata file is incremented,
\* written back, and returned; the first identifier is 1.
next_chunk(md) ==
    [id |-> md.total_chunks + 1,
     metadata |-> [md EXCEPT !.total_chunks = md.total_chunks + 1]]

\* Metadata(shape, chunks, dtype).create_like(path, like): a counter of 0.
create_like(shp, chunks, dtype) ==
    [shape |-> shp, chunks |-> chunks, dtype |-> dtype, total_chunks |-> 0]

\* The counter is read and not written back.
_get_next_index_not_persisted(md) ==
    [id |-> md.total_chunks + 1, metadata |-> md]

\* The counter is returned as it was before the increment: the first
\* identifier is 0.
_get_next_index_from_zero(md) ==
    [id |-> md.total_chunks,
     metadata |-> [md EXCEPT !.total_chunks = md.total_chunks + 1]]

\* data.py:105-106
_get_next_index(md) == next_chunk(md)

\* The chunk file is not written, and no exception is raised.
save_raw_not_stored(store, data, idx) == [ok |-> TRUE, store |-> store]

\* The chunk file is opened with mode 'w': an array at the path is replaced.
save_raw_overwrites(store, data, idx) ==
    [ok |-> TRUE,
     store |-> [i \in DOMAIN store \cup {idx} |->
                   IF i = idx THEN data ELSE store[i]]]

\* data.py:108-112.  zarr.open(mode='w-') raises when the path holds an array.
save_raw(store, data, idx) ==
    IF idx \in DOMAIN store
    THEN [ok |-> FALSE, store |-> store]
    ELSE [ok |-> TRUE,
          store |-> [i \in DOMAIN store \cup {idx} |->
                        IF i = idx THEN data ELSE store[i]]]

\* The index array is opened and the entry is not set.
_update_index_not_set(arr, idx, position) ==
    [ok |-> InBounds(position), index |-> arr]

\* data.py:114-117.  z[position] = index raises when position is out of bounds.
_update_index(arr, idx, position) ==
    IF InBounds(position)
    THEN [ok |-> TRUE, index |-> [arr EXCEPT ![position] = idx]]
    ELSE [ok |-> FALSE, index |-> arr]

\* A chunk file that is missing reads as a zero block.
get_file_zero_default(store, file_id) ==
    IF file_id \in DOMAIN store
    THEN [ok |-> TRUE, blk |-> store[file_id]]
    ELSE [ok |-> TRUE, blk |-> zeros(raw_chunk_size)]

\* data.py:127-130.  zarr.open(mode='r') raises when the path holds no array.
get_file(store, file_id) ==
    IF file_id \in DOMAIN store
    THEN [ok |-> TRUE, blk |-> store[file_id]]
    ELSE [ok |-> FALSE, blk |-> NoBlock]

\* ---------------------------------------------------------------- create
\* The flag is read the wrong way round.
create_returns_inverted(ex, overwrite) == ex /\ overwrite

\* data.py:55-64: create returns at once on a store that exists, unless told
\* to overwrite it.
create_returns(ex, overwrite) == ex /\ ~overwrite

\* Only the chunk directory is removed: the index directory and the
\* repository in it stay.
rmtree_raw_only(d) == [raw |-> <<>>, checkpoint |-> d.checkpoint]

\* The removal fails and the OSError is swallowed (data.py:61-62).
rmtree_fails(d) == d

\* data.py:60: shutil.rmtree(self.path) removes the chunk files and the index
\* directory, with the repository it holds (path/indexes/.git, data.py:161).
rmtree(d) == [raw |-> <<>>, checkpoint |-> NoCheckpoint]

\* The index array is created with a fill value of 1.
_create_new_dataset_ones(dims) == [g \in Cells(dims) |-> 1]

\* data.py:73-75: the index array zarr.open(mode='w-') creates, every entry 0.
_create_new_dataset(dims) == [g \in Cells(dims) |-> 0]

\* data.py:53-67 with _create_new_dataset, data.py:69-78.
create(p, overwrite) ==
    /\ pc[p] = "idle"
    /\ UNCHANGED grid_call
    /\ IF create_returns(exists, overwrite)
       THEN /\ UNCHANGED <<disk, hist>>
            /\ Return(Ret("create", NoPos, NoBlock, 0, "exists", 0))
       ELSE LET d == IF exists
                     THEN rmtree([raw |-> raw, checkpoint |-> checkpoint])
                     ELSE [raw |-> raw, checkpoint |-> checkpoint]
            IN  /\ exists' = TRUE
                /\ raw' = d.raw
                /\ checkpoint' = d.checkpoint
                /\ snap_view' = IF d.checkpoint = NoCheckpoint
                                THEN NoCheckpoint ELSE snap_view
                /\ index' = _create_new_dataset(_index_matrix_dimension)
                /\ metadata' = create_like(shape, raw_chunk_size, d_type)
                /\ allocated' = <<>>
                /\ written' = {}
                /\ Return(Ret("create", NoPos, NoBlock,
                              IF exists
                              THEN Cardinality({g \in Grid : index[g] # 0})
                              ELSE 0,
                              IF exists THEN "overwritten" ELSE "ok",
                              Cardinality(DOMAIN raw)))
    /\ UNCHANGED <<pc, loc>>

\* ------------------------------------------------------------ write_block
\* data.py:120: the identifier is allocated.
write_block(p, data, grid_position) ==
    /\ pc[p] = "idle"
    /\ UNCHANGED grid_call
    /\ metadata.total_chunks < MaxChunks
    /\ IF ~exists
       THEN /\ Return(Ret("write_block", grid_position, data, 0,
                          "FileNotFoundError", 0))
            /\ UNCHANGED <<disk, hist, pc, loc>>
       ELSE LET r == _get_next_index(metadata)
            IN  /\ metadata' = r.metadata
                /\ allocated' = Append(allocated, r.id)
                /\ loc' = [loc EXCEPT ![p] =
                              [data |-> data, pos |-> grid_position,
                               id |-> r.id, n |-> metadata.total_chunks]]
                /\ pc' = [pc EXCEPT ![p] = "save_raw"]
                /\ UNCHANGED <<exists, index, raw, checkpoint, written,
                               snap_view, ret>>

\* data.py:120, first half, for writers that run side by side.
\* Metadata.next_chunk reads the metadata file: the counter it finds is kept in
\* n.  No lock is taken (spec 5).
write_block_read_counter(p, data, grid_position) ==
    /\ pc[p] = "idle"
    /\ UNCHANGED grid_call
    /\ exists
    /\ Len(allocated) + Cardinality({q \in Procs : pc[q] = "next_chunk"})
           < MaxChunks
    /\ loc' = [loc EXCEPT ![p] =
                  [data |-> data, pos |-> grid_position,
                   id |-> 0, n |-> metadata.total_chunks]]
    /\ pc' = [pc EXCEPT ![p] = "next_chunk"]
    /\ UNCHANGED <<disk, hist, ret>>

\* data.py:120, second half.  Metadata.next_chunk writes the metadata it read
\* back with the counter incremented, and returns that counter.
write_block_write_counter(p) ==
    /\ pc[p] = "next_chunk"
    /\ UNCHANGED grid_call
    /\ LET r == _get_next_index([metadata EXCEPT !.total_chunks = loc[p].n])
       IN  /\ metadata' = r.metadata
           /\ allocated' = Append(allocated, r.id)
           /\ loc' = [loc EXCEPT ![p].id = r.id]
    /\ pc' = [pc EXCEPT ![p] = "save_raw"]
    /\ UNCHANGED <<exists, index, raw, checkpoint, written, snap_view, ret>>

\* data.py:121: the chunk is stored (the array is created and filled in one
\* step); an exception ends write_block.
write_block_save_raw(p) ==
    /\ pc[p] = "save_raw"
    /\ UNCHANGED grid_call
    /\ LET r == save_raw(raw, loc[p].data, loc[p].id)
       IN  IF r.ok
           THEN /\ raw' = r.store
                /\ pc' = [pc EXCEPT ![p] = "update_index"]
                /\ UNCHANGED <<loc, ret>>
           ELSE /\ Return(Ret("write_block", loc[p].pos, loc[p].data, loc[p].id,
                              "ContainsArrayError", loc[p].n))
                /\ pc' = [pc EXCEPT ![p] = "idle"]
                /\ loc' = [loc EXCEPT ![p] = NoLoc]
                /\ UNCHANGED raw
    /\ UNCHANGED <<exists, index, metadata, checkpoint, hist>>

\* data.py:125: the index entry is set.
write_block_update_index(p) ==
    /\ pc[p] = "update_index"
    /\ UNCHANGED grid_call
    /\ LET r == _update_index(index, loc[p].id, loc[p].pos)
       IN  /\ index' = r.index
           /\ written' = IF r.ok THEN written \cup {loc[p].pos} ELSE written
           /\ Return(Ret("write_block", loc[p].pos, loc[p].data, loc[p].id,
                         IF r.ok THEN "ok" ELSE "IndexError", loc[p].n))
    /\ pc' = [pc EXCEPT ![p] = "idle"]
    /\ loc' = [loc EXCEPT ![p] = NoLoc]
    /\ UNCHANGED <<exists, raw, metadata, checkpoint, allocated, snap_view>>

\* -------------------------------------------------------------- get_chunk
\* data.py:96-99 and 101-103: the index entry is read; 0 gives a zero block.
get_chunk(p, grid_position) ==
    /\ pc[p] = "idle"
    /\ UNCHANGED grid_call
    /\ IF ~exists
       THEN /\ Return(Ret("get_chunk", grid_position, NoBlock, 0,
                          "PathNotFoundError", 0))
            /\ UNCHANGED <<pc, loc>>
       ELSE IF ~InBounds(grid_position)
       THEN /\ Return(Ret("get_chunk", grid_position, NoBlock, 0,
                          "IndexError", 0))
            /\ UNCHANGED <<pc, loc>>
       ELSE LET file_id == index[grid_position]
            IN  IF file_id > 0
                THEN /\ pc' = [pc EXCEPT ![p] = "get_file"]
                     /\ loc' = [loc EXCEPT ![p] =
                                   [NoLoc EXCEPT !.pos = grid_position,
                                                 !.id = file_id]]
                     /\ UNCHANGED ret
                ELSE /\ Return(Ret("get_chunk", grid_position,
                                   zeros(raw_chunk_size), 0, "ok", 0))
                     /\ UNCHANGED <<pc, loc>>
    /\ UNCHANGED <<disk, hist>>

\* data.py:100: the chunk file of the entry is opened and read.
get_chunk_get_file(p) ==
    /\ pc[p] = "get_file"
    /\ UNCHANGED grid_call
    /\ LET r == get_file(raw, loc[p].id)
       IN  Return(Ret("get_chunk", loc[p].pos, r.blk, loc[p].id,
                      IF r.ok THEN "ok" ELSE "PathNotFoundError", 0))
    /\ pc' = [pc EXCEPT ![p] = "idle"]
    /\ loc' = [loc EXCEPT ![p] = NoLoc]
    /\ UNCHANGED <<disk, hist>>

\* ------------------------------------------------------------ the queries
\* The index array is opened with mode 'w': it is replaced by an empty one.
block_exists_truncates(p, grid_position) ==
    /\ pc[p] = "idle"
    /\ UNCHANGED grid_call
    /\ exists
    /\ index' = _create_new_dataset(_index_matrix_dimension)
    /\ IF ~InBounds(grid_position)
       THEN Return(Ret("block_exists", grid_position, NoBlock, 0,
                       "IndexError", 0))
       ELSE Return(Ret("block_exists", grid_position, NoBlock, 0, "ok", 0))
    /\ UNCHANGED <<exists, raw, metadata, checkpoint, hist, pc, loc>>

\* data.py:132-137, on a store that exists (on a path holding no array
\* zarr.open(mode='a') does not raise but opens a group, which is not
\* modelled).
block_exists(p, grid_position) ==
    /\ pc[p] = "idle"
    /\ UNCHANGED grid_call
    /\ exists
    /\ IF ~InBounds(grid_position)
       THEN Return(Ret("block_exists", grid_position, NoBlock, 0,
                       "IndexError", 0))
       ELSE Return(Ret("block_exists", grid_position, NoBlock,
                       index[grid_position], "ok",
                       IF index[grid_position] > 0 THEN 1 ELSE 0))
    /\ UNCHANGED <<disk, hist, pc, loc>>

\* The identifiers that stand in the index are counted instead of the counter
\* being read.
get_total_chunks_counts_index(p) ==
    /\ pc[p] = "idle"
    /\ UNCHANGED grid_call
    /\ IF ~exists
       THEN Return(Ret("get_total_chunks", NoPos, NoBlock, 0,
                       "FileNotFoundError", 0))
       ELSE Return(Ret("get_total_chunks", NoPos, NoBlock, 0, "ok",
                       Cardinality({index[g] : g \in Grid} \ {0})))
    /\ UNCHANGED <<disk, hist, pc, loc>>

\* data.py:139-141
get_total_chunks(p) ==
    /\ pc[p] = "idle"
    /\ UNCHANGED grid_call
    /\ IF ~exists
       THEN Return(Ret("get_total_chunks", NoPos, NoBlock, 0,
                       "FileNotFoundError", 0))
       ELSE Return(Ret("get_total_chunks", NoPos, NoBlock, 0, "ok",
                       metadata.total_chunks))
    /\ UNCHANGED <<disk, hist, pc, loc>>

\* data.py:143-148: a fresh instance on the store, from its metadata.
open(p) ==
    /\ pc[p] = "idle"
    /\ UNCHANGED grid_call
    /\ IF ~exists
       THEN Return(Ret("open", NoPos, NoBlock, 0, "FileNotFoundError", 0))
       ELSE Return(Ret("open", metadata.shape, NoBlock, 0, "ok", 0))
    /\ UNCHANGED <<disk, hist, pc, loc>>

\* ------------------------------------------------------ fill_index_dataset
\* The sources fill_index_dataset is called with.
FillInputs ==
    {[kind |-> "None", arr |-> NoIndex]}
        \cup {[kind |-> k, arr |-> a] : k \in {"dask", "ndarray"}, a \in DaskArrays}

\* Every array counts as a dask array.
isinstance_da_Array_any(data) == data.kind # "None"

\* data.py:83: isinstance(data, da.Array)
isinstance_da_Array(data) == data.kind = "dask"

\* data.py:81-89.  da.store(data, dest) writes every entry of the index; the
\* store exists when a dask array is given (zarr.open in its default mode 'a'
\* on a path holding no array is not modelled).
fill_index_dataset(p, data) ==
    /\ pc[p] = "idle"
    /\ UNCHANGED grid_call
    /\ IF data.kind = "None"
       THEN /\ Return(Ret("fill_index_dataset", NoPos, NoBlock, 0, "ok", 0))
            /\ UNCHANGED <<index, written>>
       ELSE IF ~isinstance_da_Array(data)
       THEN /\ Return(Ret("fill_index_dataset", NoPos, NoBlock, 0,
                          "InvalidDataDaskFillError", 0))
            /\ UNCHANGED <<index, written>>
       ELSE /\ exists
            /\ index' = data.arr
            /\ written' = Grid
            /\ Return(Ret("fill_index_dataset", NoPos, NoBlock, 0, "ok", 1))
    /\ UNCHANGED <<exists, raw, metadata, checkpoint, allocated, snap_view,
                   pc, loc>>

\* ------------------------------------------------------- the environment
\* The process dies inside a call; the instance that takes its place starts
\* from open(path).
crash(p) ==
    /\ pc[p] # "idle"
    /\ UNCHANGED grid_call
    /\ pc' = [pc EXCEPT ![p] = "idle"]
    /\ loc' = [loc EXCEPT ![p] = NoLoc]
    /\ Return(Ret("crash", NoPos, NoBlock, 0, pc[p], 0))
    /\ UNCHANGED <<disk, hist>>

\* What get_chunk gives at a position for an index array and a chunk store.
View(arr, store) ==
    [g \in Grid |->
        IF arr[g] > 0 THEN get_file(store, arr[g]).blk ELSE zeros(raw_chunk_size)]

\* The operator of the store commits the index directory (VCS, git).
commit(p) ==
    /\ pc[p] = "idle"
    /\ UNCHANGED grid_call
    /\ exists
    /\ checkpoint' = index
    /\ snap_view' = View(index, raw)
    /\ Return(Ret("commit", NoPos, NoBlock, 0, "ok", 0))
    /\ UNCHANGED <<exists, index, raw, metadata, allocated, written, pc, loc>>

\* The operator of the store checks the commit out: the index is restored.
checkout(p) ==
    /\ pc[p] = "idle"
    /\ UNCHANGED grid_call
    /\ exists
    /\ checkpoint # NoCheckpoint
    /\ index' = checkpoint
    /\ Return(Ret("checkout", NoPos, NoBlock, 0, "ok",
                  Cardinality({g \in Grid : index[g] # checkpoint[g]})))
    /\ UNCHANGED <<exists, raw, metadata, checkpoint, hist, pc, loc>>

\* save_raw called by a user of the class, with an identifier of their own.
call_save_raw(p, data, idx) ==
    /\ pc[p] = "idle"
    /\ UNCHANGED grid_call
    /\ exists
    /\ LET r == save_raw(raw, data, idx)
       IN  /\ raw' = r.store
           /\ Return(Ret("save_raw", NoPos, data, idx,
                         IF r.ok THEN "ok" ELSE "ContainsArrayError", 0))
    /\ UNCHANGED <<exists, index, metadata, checkpoint, hist, pc, loc>>

\* ------------------------------------------------------ the specifications
\* The single-writer use of the store: one process, one call at a time; the
\* process may die inside a call and be restarted.
Next ==
    \E p \in {1} :
        \/ Quiescent /\ \E ow \in BOOLEAN : create(p, ow)
        \/ Quiescent /\ \E b \in InputBlocks, g \in PosInputs : write_block(p, b, g)
        \/ write_block_save_raw(p)
        \/ write_block_update_index(p)
        \/ Quiescent /\ \E g \in PosInputs : get_chunk(p, g)
        \/ get_chunk_get_file(p)
        \/ Quiescent /\ \E g \in PosInputs : block_exists(p, g)
        \/ Quiescent /\ get_total_chunks(p)
        \/ Quiescent /\ open(p)
        \/ Quiescent /\ \E d \in FillInputs : fill_index_dataset(p, d)
        \/ crash(p)

Spec == Init /\ [][Next]_vars

\* One process writes, bulk fills, recreates and reads the store, dies and is
\* restarted, while the operator of the store commits and checks out the index.
NextVC ==
    \E p \in {1} :
        \/ Quiescent /\ \E ow \in BOOLEAN : create(p, ow)
        \/ Quiescent /\ metadata.total_chunks < MaxCommitted
                     /\ \E b \in InputBlocks, g \in PosInputs : write_block(p, b, g)
        \/ write_block_save_raw(p)
        \/ write_block_update_index(p)
        \/ Quiescent /\ \E g \in Grid : get_chunk(p, g)
        \/ get_chunk_get_file(p)
        \/ Quiescent /\ \E a \in DaskArrays :
                            fill_index_dataset(p, [kind |-> "dask", arr |-> a])
        \/ crash(p)
        \/ Quiescent /\ commit(p)
        \/ Quiescent /\ checkout(p)

SpecVC == Init /\ [][NextVC]_vars

\* One process uses the store, and also calls save_raw itself, with
\* identifiers of its own choice.
NextRaw ==
    \E p \in {1} :
        \/ Quiescent /\ \E ow \in BOOLEAN : create(p, ow)
        \/ Quiescent /\ \E b \in InputBlocks, g \in Grid : write_block(p, b, g)
        \/ write_block_save_raw(p)
        \/ write_block_update_index(p)
        \/ Quiescent /\ \E b \in InputBlocks, i \in 1..MaxChunks :
                            call_save_raw(p, b, i)
        \/ Quiescent /\ \E g \in Grid : get_chunk(p, g)
        \/ get_chunk_get_file(p)
        \/ crash(p)

SpecRaw == Init /\ [][NextRaw]_vars

\* Two processes use the store side by side: the steps of their write_block
\* and get_chunk calls interleave in any order.  The store is created and
\* bulk filled while no call is in progress.
NextConc ==
    \E p \in Procs :
        \/ Quiescent /\ ~exists /\ create(p, FALSE)
        \/ \E b \in InputBlocks, g \in Grid : write_block_read_counter(p, b, g)
        \/ write_block_write_counter(p)
        \/ write_block_save_raw(p)
        \/ write_block_update_index(p)
        \/ \E g \in Grid : get_chunk(p, g)
        \/ get_chunk_get_file(p)
        \/ Quiescent /\ \E a \in DaskArrays :
                            fill_index_dataset(p, [kind |-> "dask", arr |-> a])

SpecConc == Init /\ [][NextConc]_vars

\* _get_grid_dimensions (a static method) called on its own.
get_grid_dimensions_call ==
    /\ grid_call.result = <<>>
    /\ grid_call' = [grid_call EXCEPT !.result =
                        _get_grid_dimensions(grid_call.dimension,
                                             grid_call.chunk_size)]
    /\ UNCHANGED <<disk, hist, pc, loc, ret>>

InitGrid ==
    /\ exists = FALSE
    /\ index = NoIndex
    /\ raw = <<>>
    /\ metadata = NoMetadata
    /\ checkpoint = NoCheckpoint
    /\ pc = [p \in Procs |-> "idle"]
    /\ loc = [p \in Procs |-> NoLoc]
    /\ ret = NoRet
    /\ allocated = <<>>
    /\ written = {}
    /\ snap_view = NoCheckpoint
    /\ \E s \in ShapeInputs :
           \E c \in ChunkSizeInputs(Len(s)) :
               grid_call = [dimension |-> s, chunk_size |-> c, result |-> <<>>]

NextGrid == get_grid_dimensions_call

SpecGrid == InitGrid /\ [][NextGrid]_vars

\* ============================================================== properties

\* C1: in every reachable state, every non-zero entry of the index grid is the
\* identifier of a chunk present in the chunk store (no entry is dangling).
NoDanglingIndexEntry ==
    exists => \A g \in Grid : index[g] # 0 => index[g] \in DOMAIN raw

\* C2: the identifiers allocated to the write_block calls on a store are
\* strictly increasing, so none is allocated twice, also across a reopening of
\* the store and across a write_block that died between allocating and storing.
AllocatedStrictlyIncreasing ==
    \A i, j \in 1..Len(allocated) : i < j => allocated[i] < allocated[j]

\* C2, its case: an identifier was burned by a write_block that died before
\* storing its chunk, and a later write_block was given the next one.
AllocatedAfterInterruptedWrite ==
    /\ Quiescent
    /\ Len(allocated) >= 2
    /\ allocated[1] \notin DOMAIN raw
    /\ allocated[2] \in DOMAIN raw

\* A step in which process p returns from get_chunk at position g.
GetChunkReturns(p, g) ==
    \/ get_chunk(p, g) /\ pc'[p] = "idle"
    \/ get_chunk_get_file(p) /\ loc[p].pos = g

\* A step in which process p returns from write_block at position g.
WriteBlockReturns(p, g) ==
    /\ loc[p].pos = g
    /\ \/ write_block_update_index(p)
       \/ write_block_save_raw(p) /\ pc'[p] = "idle"

\* C3: save_raw under an identifier that is present raises, write_block is
\* then ended with the index untouched, and in no step other than a create
\* that removes the store does a stored chunk change or go.
SaveRawNeverOverwrites ==
    [][/\ \A p \in Procs, b \in InputBlocks, i \in DOMAIN raw :
              call_save_raw(p, b, i) =>
                  ret'.st = "ContainsArrayError" /\ raw' = raw
       /\ \A p \in Procs :
              (write_block_save_raw(p) /\ loc[p].id \in DOMAIN raw) =>
                  /\ ret'.op = "write_block"
                  /\ ret'.st = "ContainsArrayError"
                  /\ pc'[p] = "idle"
                  /\ raw' = raw
                  /\ index' = index
       /\ \A i \in DOMAIN raw :
              \/ i \in DOMAIN raw' /\ raw'[i] = raw[i]
              \/ \E p \in Procs : create(p, TRUE)
      ]_vars

\* C3, its case: save_raw was refused for a block that differs from the one
\* stored under the identifier, and the stored one is still there.
SaveRawRefused ==
    /\ ret.op = "save_raw"
    /\ ret.st = "ContainsArrayError"
    /\ ret.id \in DOMAIN raw
    /\ raw[ret.id] # ret.blk

\* C4: get_chunk at a grid position right after write_block of a block at
\* that position returns the block.
WriteThenReadGivesBlock ==
    [][\A p \in Procs, g \in Grid :
          (exists /\ ret.op = "write_block" /\ ret.pos = g
                  /\ GetChunkReturns(p, g)) =>
              ret'.st = "ok" /\ ret'.blk = ret.blk
      ]_vars

\* C4, its case: a block that is not all zero was read back right after it was
\* written, in a store that already held another chunk.
ReadBackAfterWrite ==
    /\ ret.op = "get_chunk"
    /\ ret.after = "write_block"
    /\ ret.st = "ok"
    /\ ret.blk = full(raw_chunk_size, 1)
    /\ ret.id >= 2

\* C5: when write_block at a grid position returns right after a write_block
\* at the same position, the chunk of the first call is still stored under its
\* identifier with its block, get_chunk at the position gives the block of the
\* second call, and the counter is 2 above what it was before the first call.
SecondWriteKeepsFirstChunk ==
    [][\A p \in Procs, g \in Grid :
          (exists /\ ret.op = "write_block" /\ ret.pos = g
                  /\ WriteBlockReturns(p, g)) =>
              /\ ret'.st = "ok"
              /\ get_file(raw', ret.id) = [ok |-> TRUE, blk |-> ret.blk]
              /\ ret'.id # ret.id
              /\ View(index', raw')[g] = ret'.blk
              /\ metadata'.total_chunks = ret.n + 2
      ]_vars

\* C5, its case: two write_block calls in a row at one position, with
\* different blocks.
WroteTwiceAtOnePosition ==
    /\ ret.op = "write_block"
    /\ ret.after = "write_block"
    /\ ret.st = "ok"
    /\ ret.id - 1 \in DOMAIN raw
    /\ raw[ret.id - 1] # ret.blk

OutOfBoundsCallChangesNothing ==
    [][\A p \in Procs, g \in PosInputs \ Grid :
          /\ ((\E b \in InputBlocks : write_block(p, b, g))
                 \/ (loc[p].pos = g /\ write_block_save_raw(p))
                 \/ (loc[p].pos = g /\ write_block_update_index(p))) =>
                 UNCHANGED <<index, raw, metadata>>
          /\ (exists /\ WriteBlockReturns(p, g)) => ret'.st = "IndexError"
          /\ (exists /\ get_chunk(p, g)) =>
                 ret'.st = "IndexError" /\ UNCHANGED <<index, raw, metadata>>
      ]_vars

\* C8: in a created store, at a grid position not written since the creation,
\* get_chunk returns the all-zero block of the chunk shape and block_exists
\* returns 0.
UntouchedPositionReadsZero ==
    [][\A p \in Procs, g \in Grid \ written :
          exists =>
              /\ GetChunkReturns(p, g) =>
                     ret'.st = "ok" /\ ret'.blk = zeros(raw_chunk_size)
              /\ block_exists(p, g) => ret'.st = "ok" /\ ret'.n = 0
      ]_vars

\* C8, its case: get_chunk returned at a position never written, in a store
\* where another position was written.
ReadUntouchedPosition ==
    /\ ret.op = "get_chunk"
    /\ ret.st = "ok"
    /\ ret.pos \in Grid \ written
    /\ written # {}

\* C9: create(overwrite=True) on a store that exists leaves no chunk and no
\* index entry, and a get_chunk or block_exists right after it gives the zero
\* block, or 0, at every grid position.
OverwriteCreateEmptiesStore ==
    [][\A p \in Procs :
          /\ (exists /\ create(p, TRUE)) =>
                 /\ ret'.st = "overwritten"
                 /\ raw' = <<>>
                 /\ \A g \in Grid : index'[g] = 0
          /\ \A g \in Grid :
                 (ret.op = "create" /\ ret.st = "overwritten") =>
                     /\ GetChunkReturns(p, g) =>
                            ret'.st = "ok" /\ ret'.blk = zeros(raw_chunk_size)
                     /\ block_exists(p, g) => ret'.st = "ok" /\ ret'.n = 0
      ]_vars

\* C9, its case: a create removed a store that held chunks and index entries.
OverwroteFilledStore ==
    /\ ret.op = "create"
    /\ ret.st = "overwritten"
    /\ ret.id > 0
    /\ ret.n > 0

\* C10: create(overwrite=False) on a store that exists returns without
\* raising and leaves the index, the chunks, the metadata with its counter and
\* the repository as they were.
CreateWithoutOverwriteIsNoOp ==
    [][\A p \in Procs :
          (exists /\ create(p, FALSE)) =>
              /\ ret'.st = "exists"
              /\ UNCHANGED <<exists, index, raw, metadata, checkpoint>>
      ]_vars

\* C10, its case: create(overwrite=False) returned on a store holding chunks
\* and index entries.
CreateOnFilledStore ==
    /\ ret.op = "create"
    /\ ret.st = "exists"
    /\ DOMAIN raw # {}
    /\ \E g \in Grid : index[g] # 0
    /\ metadata.total_chunks > 0

\* C11: get_chunk at a grid position gives the zero block in place of a chunk
\* only when the index entry is 0; for an entry that is not 0 it gives the
\* block stored under that identifier, and when no chunk is stored under it
\* get_chunk raises the chunk-not-found error and returns no block.
ZeroBlockOnlyForZeroEntry ==
    [][\A p \in Procs, g \in Grid :
          (exists /\ GetChunkReturns(p, g)) =>
              /\ index[g] = 0 =>
                     /\ ret'.st = "ok"
                     /\ ret'.id = 0
                     /\ ret'.blk = zeros(raw_chunk_size)
              /\ (index[g] # 0 /\ index[g] \in DOMAIN raw) =>
                     /\ ret'.st = "ok"
                     /\ ret'.id = index[g]
                     /\ ret'.blk = raw[index[g]]
              /\ (index[g] # 0 /\ index[g] \notin DOMAIN raw) =>
                     /\ ret'.st = "PathNotFoundError"
                     /\ ret'.id = index[g]
                     /\ ret'.blk = NoBlock
      ]_vars

\* C11, its case: get_chunk raised at a position whose entry names a chunk
\* that is not stored, in a store that holds other chunks.
ReadDanglingEntryRaised ==
    /\ ret.op = "get_chunk"
    /\ ret.st = "PathNotFoundError"
    /\ exists
    /\ ret.pos \in Grid
    /\ index[ret.pos] = ret.id
    /\ ret.id \notin DOMAIN raw
    /\ DOMAIN raw # {}

\* C12: get_total_chunks returns the number of identifiers allocated by the
\* write_block calls made since the store was created, those no longer (or
\* never) standing in the index included.
TotalChunksCountsAllocations ==
    [][\A p \in Procs :
          (exists /\ get_total_chunks(p)) =>
              ret'.st = "ok" /\ ret'.n = Len(allocated)
      ]_vars

\* C12, its case: get_total_chunks returned on a store where more identifiers
\* were allocated than stand in the index.
TotalChunksAboveIndexCount ==
    /\ ret.op = "get_total_chunks"
    /\ ret.st = "ok"
    /\ ret.n = Len(allocated)
    /\ ret.n >= 2
    /\ ret.n > Cardinality({index[g] : g \in Grid} \ {0})
    /\ \E g \in Grid : index[g] # 0

\* C13 as stated: fill_index_dataset with any source that is not a dask array
\* raises the unsupported-source error and leaves the index as it was.
NonDaskSourceRaises ==
    [][\A p \in Procs, d \in FillInputs :
          (d.kind # "dask" /\ fill_index_dataset(p, d)) =>
              ret'.st = "InvalidDataDaskFillError" /\ index' = index
      ]_vars

\* C13: fill_index_dataset with a source that is neither None nor a dask array
\* raises the unsupported-source error; with None it returns without raising;
\* in both cases the index, the chunks and the counter are as they were.
NonDaskSourceRaisesUnlessNone ==
    [][\A p \in Procs, d \in FillInputs :
          (d.kind # "dask" /\ fill_index_dataset(p, d)) =>
              /\ ret'.st = IF d.kind = "None"
                           THEN "ok" ELSE "InvalidDataDaskFillError"
              /\ ret'.n = 0
              /\ UNCHANGED <<exists, index, raw, metadata>>
      ]_vars

\* C13, its case: fill_index_dataset raised the unsupported-source error on a
\* store whose index holds identifiers, which are still there.
FillRefusedOnFilledIndex ==
    /\ ret.op = "fill_index_dataset"
    /\ ret.st = "InvalidDataDaskFillError"
    /\ exists
    /\ \E g \in Grid : index[g] # 0

\* The ceiling of a / c in exact integer arithmetic: the quotient of the long
\* division, plus 1 when there is a remainder.
CeilDiv(a, c) ==
    LET d == DivMod(a, c)
    IN  IF d.r > 0 THEN Inc(Trim(d.q)) ELSE Trim(d.q)

\* C14: for shapes and chunk shapes of positive integers and equal rank,
\* _get_grid_dimensions returns one number per axis, the ceiling of the
\* dimension divided by the chunk size.
GridDimensionsAreCeilings ==
    grid_call.result # <<>> =>
        /\ Len(grid_call.result) = Len(grid_call.dimension)
        /\ \A i \in 1..Len(grid_call.dimension) :
               grid_call.result[i] =
                   CeilDiv(grid_call.dimension[i], grid_call.chunk_size[i])

\* A step of a write_block of process p at position g, or the death of p
\* inside it.
WriteBlockStep(p, g) ==
    \/ \E b \in InputBlocks : write_block(p, b, g)
    \/ /\ loc[p].pos = g
       /\ \/ write_block_save_raw(p)
          \/ write_block_update_index(p)
          \/ crash(p) /\ pc[p] \in {"save_raw", "update_index"}

\* C15: write_block allocates, then stores the chunk, then sets the index
\* entry: the first two steps and a death at any point leave the index as it
\* is, the chunk is stored under the identifier when the entry is set, and so
\* after every step the entry of the position is what it was before or the
\* identifier of a chunk that is stored, holding the block of the call.
IndexSetAfterChunkStored ==
    [][\A p \in Procs, g \in PosInputs :
          WriteBlockStep(p, g) =>
              /\ pc[p] # "update_index" => index' = index
              /\ pc[p] # "save_raw" => raw' = raw
              /\ pc[p] # "idle" => metadata' = metadata
              /\ (pc[p] = "update_index" /\ ~crash(p)) =>
                     loc[p].id \in DOMAIN raw
              /\ (exists /\ g \in Grid) =>
                     \/ index'[g] = index[g]
                     \/ /\ index'[g] = loc[p].id
                        /\ index'[g] \in DOMAIN raw'
                        /\ raw'[index'[g]] = loc[p].data
      ]_vars

\* C15, its case: a write_block died after storing its chunk and before
\* setting the index entry: the chunk is stored, no entry names it, and the
\* index still holds the entries of earlier calls.
DiedBetweenStoreAndIndex ==
    /\ ret.op = "crash"
    /\ ret.st = "update_index"
    /\ metadata.total_chunks \in DOMAIN raw
    /\ \A g \in Grid : index[g] # metadata.total_chunks
    /\ \E g \in Grid : index[g] # 0 /\ index[g] \in DOMAIN raw

ReadOverlapsWrite(p, g) ==
    \/ \E q \in Procs \ {p} :
           /\ pc[q] \in {"next_chunk", "save_raw", "update_index"}
           /\ loc[q].pos = g
    \/ pc[p] = "get_file" /\ loc[p].pos = g /\ loc[p].id # index[g]

\* C16: a get_chunk at a position that runs side by side with a write_block at
\* that position returns a block: the identifier it read from the index, the
\* old or the new one, is never one without a stored chunk.
ConcurrentReadNeverDangling ==
    [][\A p \in Procs, g \in Grid :
          (exists /\ ReadOverlapsWrite(p, g) /\ GetChunkReturns(p, g)) =>
              /\ ret'.st = "ok"
              /\ ret'.id # 0 => ret'.id \in DOMAIN raw'
      ]_vars

\* C18: no step of a write_block at a position changes the index entry of
\* another position or a chunk stored before, and get_chunk at every other
\* position gives after the step what it gave before.
WriteLeavesOtherPositionsAlone ==
    [][\A p \in Procs, g \in Grid :
          (exists /\ WriteBlockStep(p, g)) =>
              /\ \A q \in Grid \ {g} : index'[q] = index[q]
              /\ \A i \in DOMAIN raw : i \in DOMAIN raw' /\ raw'[i] = raw[i]
              /\ \A q \in Grid \ {g} :
                     View(index', raw')[q] = View(index, raw)[q]
      ]_vars

\* C19: every identifier allocated is at least 1 and the first one after a
\* create is 1; a write_block that sets an index entry sets it to an
\* identifier that is at least 1; block_exists returns 1 at a position whose
\* entry is not 0, so right after a write_block at the position it returns 1.
IdentifiersStartAtOne ==
    [][/\ \A i \in 1..Len(allocated') : allocated'[i] >= 1
       /\ Len(allocated') >= 1 => allocated'[1] = 1
       /\ \A p \in Procs, g \in Grid :
              /\ (exists /\ loc[p].pos = g /\ write_block_update_index(p)) =>
                     index'[g] = loc[p].id /\ index'[g] >= 1
              /\ (exists /\ block_exists(p, g)) =>
                     /\ ret'.st = "ok"
                     /\ ret'.n = IF index[g] # 0 THEN 1 ELSE 0
                     /\ (ret.op = "write_block" /\ ret.st = "ok" /\ ret.pos = g)
                            => ret'.n = 1
      ]_vars

\* C19, its case: block_exists returned 1 right after the first write_block
\* on a created store, which was given identifier 1.
BlockExistsAfterFirstWrite ==
    /\ ret.op = "block_exists"
    /\ ret.after = "write_block"
    /\ ret.st = "ok"
    /\ ret.n = 1
    /\ ret.id = 1
    /\ allocated = <<1>>

====
